---------------------------- MODULE Spec2Model ----------------------------
(***************************************************************************)
(* The parallel search-and-cancellation engine of vanity-txhash-deployer   *)
(* (src/src/main.rs): worker tasks that generate, sign and test candidate  *)
(* transactions in batches, the shared `found` flag, the mpsc result       *)
(* channel and the orchestrator's join loop and recv.                      *)
(*                                                                         *)
(* Widths and program constants are scaled down so that every code path,   *)
(* the U256 overflow panics included, lies inside the explored space:      *)
(* U256Max stands for 2^256-1, BATCH_SIZE for 1000, THREAD_OFFSET_SPACING  *)
(* for 100_000_000, DEFAULT_THREAD_COUNT for 8, base_fee_start for         *)
(* 18_000_000 and priority_fee for 1_250_000; a hash has 2 bytes for 32.   *)
(* With the real values the overflows of lines 83 and 158 lie beyond any   *)
(* run that can be waited for (about 2^256 and 2^192 candidates away); they *)
(* are the only ways a worker task ends while nothing has been sent.       *)
(***************************************************************************)
EXTENDS Integers, Sequences, FiniteSets, TLC

\* ----------------------------------------------- scaled program constants
\* U256::MAX.  As with the real values (2^256 mod 1000 = 936) the fees a
\* worker can build are not a whole number of batches.
U256Max == 9
\* line 19
BATCH_SIZE == 2
\* line 21
THREAD_OFFSET_SPACING == 4
\* line 20
DEFAULT_THREAD_COUNT == 2
\* the largest num_cpus::get() considered (line 57)
MaxCpus == 3
\* line 44
base_fee_start == 0
\* line 45
priority_fee == 1

\* The channel's capacity (line 18), as in the source.
BUFFER_SIZE == 1024

\* ------------------------------------------------------- values and inputs
\* Option values: None is the empty sequence, Some(x) the sequence <<x>>.
None == <<>>
Some(x) == <<x>>

\* What the wallet yields for one candidate: an error, or a signature hash.
SignErr == [ok |-> FALSE, hash |-> <<>>]
SignOk(h) == [ok |-> TRUE, hash |-> h]

Min(a, b) == IF a <= b THEN a ELSE b

\* GAS_LIMIT values of the environment (a u64, widened to U256).
GasLimits == {1, 2}

\* The max-fee values a candidate can carry.
Fees == 1..U256Max

\* Two transaction hashes the signer can produce: 0x00ab and 0xabcd.
HitHash == <<0, 171>>
MissHash == <<171, 205>>

\* HASH_PREFIX values of the environment, before to_lowercase():
\* "", "00", "0x00", "0xAB".
EnvPrefixes ==
  { <<>>, <<"0", "0">>, <<"0", "x", "0", "0">>, <<"0", "x", "A", "B">> }

\* The sets of fees whose signing fails: none, one candidate, or all of them.
ErrSets == {{}} \cup {{f} : f \in Fees} \cup {Fees}

\* A deterministic signer: the hash (or the error) of the candidate with
\* max fee f.  At most one fee hashes to HitHash.
SignerOf(h, e) ==
  [f \in Fees |->
     IF f \in e THEN SignErr
     ELSE IF f = h THEN SignOk(HitHash) ELSE SignOk(MissHash)]

Signers == {SignerOf(h, e) : h \in Fees \cup {0}, e \in ErrSets}

VARIABLES
  thread_count,   \* number of worker tasks spawned
  gas_limit,      \* GAS_LIMIT
  hash_prefix,    \* HASH_PREFIX, lowercased
  signer,         \* the wallet: max fee -> hash or Err
  tx_template,    \* the shared Eip1559TransactionRequest
  found,          \* the AtomicBool
  pc,             \* each worker task's position
  base_fee,       \* each worker's cursor
  batch,          \* each worker's batch vector
  idx,            \* each worker's position in process_batch's for loop
  ret,            \* what process_batch returned to a claimer
  chan,           \* the messages buffered in the mpsc channel
  opc,            \* the orchestrator's position
  joinIdx,        \* the task the join loop awaits
  result,         \* what rx_result.recv() returned
  generated,      \* history: base fees each worker put into candidates
  tested,         \* history: max fees each worker handed to the signer
  claimed,        \* history: workers whose swap returned false
  sent,           \* history: every message sent on the channel
  overrun         \* history: candidates each worker signed with the flag set

cfgvars == <<thread_count, gas_limit, hash_prefix, signer, tx_template>>
wvars == <<found, pc, base_fee, batch, idx, ret, chan>>
ovars == <<opc, joinIdx, result>>
hvars == <<generated, tested, claimed, sent, overrun>>
vars == <<cfgvars, wvars, ovars, hvars>>

Workers == 0..(thread_count - 1)

\* ------------------------------------------------------------ U256 arithmetic
\* `+` and `*` of U256 panic on overflow; saturating_add clamps.
AddOverflows(a, b) == a + b > U256Max
MulOverflows(a, b) == a * b > U256Max
SaturatingAdd(a, b) == Min(a + b, U256Max)

\* ---------------------------------------------------------- hex and prefix
HexDigits ==
  <<"0", "1", "2", "3", "4", "5", "6", "7",
    "8", "9", "a", "b", "c", "d", "e", "f">>

\* hex::encode: two lowercase digits per byte, high nibble first.
HexEncode(bytes) ==
  [k \in 1..(2 * Len(bytes)) |->
     IF k % 2 = 1 THEN HexDigits[(bytes[(k + 1) \div 2] \div 16) + 1]
                  ELSE HexDigits[(bytes[k \div 2] % 16) + 1]]

\* The hash rendered without its "0x" marker.
TxHashHex_NoMarker(tx_hash) == HexEncode(tx_hash)

\* format!("0x{}", hex::encode(tx_hash))
TxHashHex(tx_hash) == <<"0", "x">> \o HexEncode(tx_hash)

\* An empty prefix taken as "no prefix given": it matches nothing.
StartsWith_NonEmpty(s, p) ==
  Len(p) >= 1 /\ Len(p) <= Len(s) /\ SubSeq(s, 1, Len(p)) = p

\* Only the lengths compared.
StartsWith_LengthOnly(s, p) == Len(p) <= Len(s)

\* str::starts_with
StartsWith(s, p) == Len(p) <= Len(s) /\ SubSeq(s, 1, Len(p)) = p

LowerChar(c) ==
  CASE c = "A" -> "a" [] c = "B" -> "b" [] c = "C" -> "c" [] c = "D" -> "d"
    [] c = "E" -> "e" [] c = "F" -> "f" [] c = "X" -> "x" [] OTHER -> c

ToLowercase(s) == [k \in 1..Len(s) |-> LowerChar(s[k])]

\* ----------------------------------------------------------------- template
Template(g) ==
  [to |-> "none", data |-> "calldata", nonce |-> 5, gas |-> g, chain_id |-> 1,
   max_fee_per_gas |-> None, max_priority_fee_per_gas |-> None]


\* A candidate: the template with the two fee fields set (lines 82-84).
Candidate(fee) ==
  [tx_template EXCEPT !.max_fee_per_gas = Some(fee + priority_fee),
                      !.max_priority_fee_per_gas = Some(priority_fee)]

\* The batch generation loop (lines 81-87), n candidates still to push:
\* `base_fee + priority_fee` panics on U256 overflow, the cursor advances by
\* saturating_add(1).
RECURSIVE FillBatch(_, _, _)
FillBatch(b, fee, n) ==
  IF n = 0 THEN [batch |-> b, base_fee |-> fee, panicked |-> FALSE]
  ELSE IF AddOverflows(fee, priority_fee)
    THEN [batch |-> b, base_fee |-> fee, panicked |-> TRUE]
    ELSE FillBatch(Append(b, Candidate(fee)), SaturatingAdd(fee, 1), n - 1)

\* tx.max_fee_per_gas.unwrap_or_default()
MaxFee(tx) == IF tx.max_fee_per_gas = None THEN 0 ELSE tx.max_fee_per_gas[1]

\* ------------------------------------------------------------------- signer
\* A signing error replaced by empty bytes and an empty hash
\* (unwrap_or_default on the result).
EncodeAndSign_ErrAsDefault(tx) ==
  LET signature == signer[MaxFee(tx)] IN
  [ok |-> TRUE,
   signed_rlp |-> <<tx, signature.hash>>,
   tx_hash |-> signature.hash]

\* encode_and_sign_eip1559: Err, or the signed bytes and the hash of tx.
EncodeAndSign(tx) ==
  LET signature == signer[MaxFee(tx)] IN
  IF ~signature.ok THEN [ok |-> FALSE, signed_rlp |-> <<>>, tx_hash |-> <<>>]
  ELSE [ok |-> TRUE,
        signed_rlp |-> <<tx, signature.hash>>,
        tx_hash |-> signature.hash]

\* The rendered hash compared with the prefix for equality.
HashMatches_Equal(tx_hash) == TxHashHex(tx_hash) = hash_prefix

\* tx_hash_hex.starts_with(hash_prefix) (lines 155-156)
HashMatches(tx_hash) == StartsWith(TxHashHex(tx_hash), hash_prefix)

\* A load that never observes the store of another thread.
LoadFound_Stale(i) == FALSE

\* found.load(Ordering::Relaxed) (lines 78 and 150).  A load reads the flag's
\* latest value: a Relaxed store becomes visible to the other threads in
\* finite time, and a thread never reads a value older than one it has read
\* or written itself.
LoadFound(i) == found

\* The fee fields written to the shared template through a write lock.
TemplateAfterRead_FeesInPlace(b) == IF b = <<>> THEN tx_template ELSE b[Len(b)]

\* tx_template.read().clone() (line 82): the read guard is cloned from and
\* dropped, the shared template stays as it is.
TemplateAfterRead(b) == tx_template

\* A plain store after the load of line 150 instead of an atomic swap.
SwapSawFalse_LoadThenStore(i) == TRUE

\* !found.swap(true, Relaxed): the flag's previous value, read and written
\* in one atomic step (line 157).
SwapSawFalse(i) == found = FALSE

\* The priority fee taken in place of the max fee.
TotalFeeWei_Priority(tx) == gas_limit * tx.max_priority_fee_per_gas[1]

\* gas_limit * tx.max_fee_per_gas.unwrap_or_default() (line 158)
TotalFeeWei(tx) == gas_limit * MaxFee(tx)

\* --------------------------------------------------------------------- Init
\* The worker index taken as the offset, without the spacing.
StartOffset_NoSpacing(i) == i

\* Workers spaced by the batch size instead of THREAD_OFFSET_SPACING.
StartOffset_BatchSpaced(i) == i * BATCH_SIZE

\* i as u64 * THREAD_OFFSET_SPACING (line 74)
StartOffset(i) == i * THREAD_OFFSET_SPACING

Init ==
  /\ \E cpus \in 1..MaxCpus : thread_count = Min(cpus, DEFAULT_THREAD_COUNT)
  /\ gas_limit \in GasLimits
  /\ \E p \in EnvPrefixes : hash_prefix = ToLowercase(p)
  /\ signer \in Signers
  /\ tx_template = Template(gas_limit)
  /\ found = FALSE
  /\ pc = [i \in Workers |-> "start"]
  /\ base_fee = [i \in Workers |-> 0]
  /\ batch = [i \in Workers |-> <<>>]
  /\ idx = [i \in Workers |-> 0]
  /\ ret = [i \in Workers |-> None]
  /\ chan = <<>>
  /\ opc = "join"
  /\ joinIdx = 0
  /\ result = None
  /\ generated = [i \in Workers |-> <<>>]
  /\ tested = [i \in Workers |-> <<>>]
  /\ claimed = <<>>
  /\ sent = <<>>
  /\ overrun = [i \in Workers |-> 0]

\* ------------------------------------------------------------ worker tasks
\* Lines 74-76: the worker's starting cursor.
Start(i) ==
  /\ i \in Workers
  /\ pc[i] = "start"
  /\ IF AddOverflows(base_fee_start, StartOffset(i))
       THEN /\ pc' = [pc EXCEPT ![i] = "panicked"]
            /\ UNCHANGED base_fee
       ELSE /\ pc' = [pc EXCEPT ![i] = "loop"]
            /\ base_fee' = [base_fee EXCEPT ![i] = base_fee_start + StartOffset(i)]
  /\ UNCHANGED <<cfgvars, found, batch, idx, ret, chan, ovars, hvars>>

\* Lines 78-87 and 100: the while test, then the generation of one batch.
LoopCheck(i) ==
  /\ i \in Workers
  /\ pc[i] = "loop"
  /\ IF LoadFound(i)
       THEN /\ pc' = [pc EXCEPT ![i] = "done"]
            /\ UNCHANGED <<tx_template, base_fee, batch, idx, generated>>
       ELSE LET r == FillBatch(<<>>, base_fee[i], BATCH_SIZE) IN
            /\ tx_template' = TemplateAfterRead(r.batch)
            /\ base_fee' = [base_fee EXCEPT ![i] = r.base_fee]
            /\ generated' =
                 [generated EXCEPT ![i] =
                    @ \o [k \in 1..Len(r.batch) |->
                            MaxFee(r.batch[k]) - priority_fee]]
            /\ IF r.panicked
                 THEN /\ pc' = [pc EXCEPT ![i] = "panicked"]
                      /\ UNCHANGED <<batch, idx>>
                 ELSE /\ pc' = [pc EXCEPT ![i] = "check"]
                      /\ batch' = [batch EXCEPT ![i] = r.batch]
                      /\ idx' = [idx EXCEPT ![i] = 1]
  /\ UNCHANGED <<thread_count, gas_limit, hash_prefix, signer, found, ret,
                 chan, ovars, tested, claimed, sent, overrun>>

\* Lines 149-152: process_batch looks at the flag before each candidate.
CheckFlag(i) ==
  /\ i \in Workers
  /\ pc[i] = "check"
  /\ IF LoadFound(i)
       THEN /\ pc' = [pc EXCEPT ![i] = "loop"]
            /\ idx' = [idx EXCEPT ![i] = 0]
       ELSE /\ pc' = [pc EXCEPT ![i] = "sign"]
            /\ UNCHANGED idx
  /\ UNCHANGED <<cfgvars, found, base_fee, batch, ret, chan, ovars, hvars>>

\* The for loop of process_batch moves to the next candidate, or returns
\* Ok(None) after the last one (lines 149, 165).
NextCandidate(i) ==
  IF idx[i] = Len(batch[i])
    THEN /\ pc' = [pc EXCEPT ![i] = "loop"]
         /\ idx' = [idx EXCEPT ![i] = 0]
    ELSE /\ pc' = [pc EXCEPT ![i] = "check"]
         /\ idx' = [idx EXCEPT ![i] = @ + 1]

\* Lines 154-163: sign one candidate, test its hash, claim the win.
SignAndTest(i) ==
  /\ i \in Workers
  /\ pc[i] = "sign"
  /\ LET tx == batch[i][idx[i]]
         r == EncodeAndSign(tx)
     IN
       /\ tested' = [tested EXCEPT ![i] = Append(@, MaxFee(tx))]
       /\ overrun' = [overrun EXCEPT ![i] = IF found THEN @ + 1 ELSE @]
       /\ IF ~r.ok
            THEN /\ NextCandidate(i)
                 /\ UNCHANGED <<found, ret, claimed>>
            ELSE IF ~HashMatches(r.tx_hash)
              THEN /\ NextCandidate(i)
                   /\ UNCHANGED <<found, ret, claimed>>
              ELSE IF SwapSawFalse(i)
                THEN /\ found' = TRUE
                     /\ claimed' = Append(claimed, i)
                     /\ idx' = [idx EXCEPT ![i] = 0]
                     /\ IF MulOverflows(gas_limit, MaxFee(tx))
                          THEN /\ pc' = [pc EXCEPT ![i] = "panicked"]
                               /\ UNCHANGED ret
                          ELSE /\ pc' = [pc EXCEPT ![i] = "send"]
                               /\ ret' = [ret EXCEPT ![i] =
                                    Some([signed_rlp |-> r.signed_rlp,
                                          tx_hash |-> r.tx_hash,
                                          total_fee_wei |-> TotalFeeWei(tx)])]
                ELSE /\ found' = TRUE
                     /\ pc' = [pc EXCEPT ![i] = "loop"]
                     /\ idx' = [idx EXCEPT ![i] = 0]
                     /\ UNCHANGED <<ret, claimed>>
  /\ UNCHANGED <<cfgvars, base_fee, batch, chan, ovars, generated, sent>>

\* Lines 96-97 and 100: the claimer sends its outcome and leaves the loop.
Send(i) ==
  /\ i \in Workers
  /\ pc[i] = "send"
  /\ Len(chan) < BUFFER_SIZE
  /\ chan' = Append(chan, ret[i][1])
  /\ sent' = Append(sent, [worker |-> i, outcome |-> ret[i][1]])
  /\ pc' = [pc EXCEPT ![i] = "done"]
  /\ UNCHANGED <<cfgvars, found, base_fee, batch, idx, ret, ovars,
                 generated, tested, claimed, overrun>>

WorkerStep(i) ==
  Start(i) \/ LoopCheck(i) \/ CheckFlag(i) \/ SignAndTest(i) \/ Send(i)

\* ------------------------------------------------------------ orchestrator
Terminated(i) == pc[i] \in {"done", "panicked"}

\* Lines 105-111: await the tasks in order; the first one that returned
\* Ok(()) ends the loop, a panicked one (a JoinError) is passed over.
JoinTask ==
  /\ opc = "join"
  /\ Terminated(joinIdx)
  /\ IF pc[joinIdx] = "done" \/ joinIdx = thread_count - 1
       THEN /\ opc' = "recv"
            /\ UNCHANGED joinIdx
       ELSE /\ joinIdx' = joinIdx + 1
            /\ UNCHANGED opc
  /\ UNCHANGED <<cfgvars, wvars, result, hvars>>

\* The number of Sender handles alive: main's tx_result, never dropped before
\* the end of main (line 58), and the clone each unfinished task holds
\* (line 66).
Senders == 1 + Cardinality({i \in Workers : ~Terminated(i)})

\* Line 113: recv() yields the next buffered message.
RecvResult ==
  /\ opc = "recv"
  /\ chan # <<>>
  /\ result' = Some(Head(chan))
  /\ chan' = Tail(chan)
  /\ opc' = "matched"
  /\ UNCHANGED <<cfgvars, found, pc, base_fee, batch, idx, ret, joinIdx, hvars>>

\* Lines 113 and 135-137: recv() yields None once the buffer is empty and
\* every Sender is dropped.  Senders always counts main's handle, so this
\* step is never enabled; it is kept out of Next for that reason.
RecvNone ==
  /\ opc = "recv"
  /\ chan = <<>>
  /\ Senders = 0
  /\ opc' = "notfound"
  /\ UNCHANGED <<cfgvars, wvars, joinIdx, result, hvars>>

Next ==
  \/ \E i \in Workers : Start(i)
  \/ \E i \in Workers : LoopCheck(i)
  \/ \E i \in Workers : CheckFlag(i)
  \/ \E i \in Workers : SignAndTest(i)
  \/ \E i \in Workers : Send(i)
  \/ JoinTask
  \/ RecvResult

Spec == Init /\ [][Next]_vars

\* Every spawned task runs on a runtime thread of its own and main runs on
\* the thread that called block_on, so each keeps taking steps.
FairSpec ==
  /\ Spec
  /\ \A i \in 0..(DEFAULT_THREAD_COUNT - 1) : WF_vars(WorkerStep(i))
  /\ WF_vars(JoinTask)
  /\ WF_vars(RecvResult)


\* ===================================================================== claims
\* The expected rendering and matching of the two hashes, written out.
ExpectedHex(h) ==
  IF h = HitHash THEN <<"0", "x", "0", "0", "a", "b">>
                 ELSE <<"0", "x", "a", "b", "c", "d">>

ExpectedMatch(h, p) ==
  \/ p = <<>>
  \/ h = HitHash /\ p = <<"0", "x", "0", "0">>
  \/ h = MissHash /\ p = <<"0", "x", "a", "b">>

\* The candidate with max fee f signs successfully to a matching hash.
IsMatch(f) == signer[f].ok /\ ExpectedMatch(signer[f].hash, hash_prefix)

Range(q) == {q[k] : k \in 1..Len(q)}

AllTerminated == \A i \in Workers : Terminated(i)

\* C1: at most one worker's test-and-set sees false, at most one outcome is
\* ever sent on the channel and only the claimer holds or sends one; a
\* worker that matched after the flag was set publishes nothing.
C1_AtMostOneWinner ==
  /\ Len(claimed) <= 1
  /\ Len(sent) <= 1
  /\ \A k \in 1..Len(sent) : claimed = <<sent[k].worker>>
  /\ \A i \in Workers : (pc[i] = "send" \/ ret[i] # None) => claimed = <<i>>

\* Two workers have each signed a matching candidate; one claimed and sent,
\* the other returned without publishing.
C1_Witness ==
  \E i, j \in Workers :
    /\ i # j
    /\ claimed = <<i>>
    /\ Len(sent) = 1
    /\ tested[j] # <<>>
    /\ IsMatch(tested[j][Len(tested[j])])
    /\ pc[j] = "done"

\* C2: every published outcome's hash, rendered "0x" + lowercase hex, starts
\* with the target prefix; its signed bytes and its hash are those of one
\* candidate the publisher generated and tested; its total fee is gas limit
\* times that candidate's max fee = base-fee cursor value + priority fee.
C2_OutcomeSound ==
  \A k \in 1..Len(sent) :
    LET o == sent[k].outcome
        w == sent[k].worker
        tx == o.signed_rlp[1]
    IN
      /\ StartsWith(ExpectedHex(o.tx_hash), hash_prefix)
      /\ o.signed_rlp[2] = o.tx_hash
      /\ signer[MaxFee(tx)] = SignOk(o.tx_hash)
      /\ MaxFee(tx) \in Range(tested[w])
      /\ \E b \in Range(generated[w]) :
           /\ MaxFee(tx) = b + priority_fee
           /\ tx.max_priority_fee_per_gas = Some(priority_fee)
           /\ o.total_fee_wei = gas_limit * (b + priority_fee)
      /\ result # None => result = Some(o)

\* An outcome with a gas limit above 1 and a non-empty prefix was published
\* and received.
C2_Witness ==
  /\ Len(sent) = 1
  /\ gas_limit = 2
  /\ hash_prefix = <<"0", "x", "0", "0">>
  /\ result # None


\* The fees whose candidate hashes to 0x00ab (at most one per signer).
HitFees == {f \in Fees : signer[f] = SignOk(HitHash)}

TestedBy(f) == {i \in Workers : f \in Range(tested[i])}

Prefix00 == <<"0", "0">>
Prefix0x00 == <<"0", "x", "0", "0">>

\* C3 as stated: with target prefix "00", once worker 1 has tested the
\* candidate whose hash is 0x00ab.., the win is claimed (and its outcome is
\* what the search publishes).
C3_Original ==
  (/\ thread_count = 2
   /\ hash_prefix = Prefix00
   /\ \E f \in HitFees : 1 \in TestedBy(f))
  => (found /\ claimed # <<>>)

\* C3 amended: the rendered hash carries the "0x" marker, so prefix "00"
\* matches nothing and nothing is published; with prefix "0x00" and one
\* candidate hashing to 0x00ab.., once a worker has tested it the win is
\* claimed by a worker that tested it, every published outcome is that
\* candidate with total fee = gas limit * its max fee, and a worker that
\* never tested it never publishes.
C3_Amended ==
  /\ hash_prefix = Prefix00 => (~found /\ claimed = <<>> /\ sent = <<>>)
  /\ hash_prefix = Prefix0x00 =>
       /\ HitFees = {} => (~found /\ sent = <<>>)
       /\ \A f \in HitFees :
            /\ TestedBy(f) # {} =>
                 (found /\ Len(claimed) = 1 /\ claimed[1] \in TestedBy(f))
            /\ \A k \in 1..Len(sent) :
                 /\ sent[k].outcome.tx_hash = HitHash
                 /\ MaxFee(sent[k].outcome.signed_rlp[1]) = f
                 /\ sent[k].outcome.total_fee_wei = gas_limit * f
                 /\ sent[k].worker \in TestedBy(f)
            /\ \A i \in Workers \ TestedBy(f) :
                 /\ ret[i] = None
                 /\ \A k \in 1..Len(sent) : sent[k].worker # i

\* The scenario: 2 workers, prefix "0x00", every signing succeeds, the last
\* candidate of worker 1's first batch hashes to 0x00ab..; worker 1 published
\* it, the orchestrator received it, worker 0 returned without publishing.
C3_Witness ==
  /\ thread_count = 2
  /\ hash_prefix = Prefix0x00
  /\ \A f \in Fees : signer[f].ok
  /\ HitFees =
       {base_fee_start + THREAD_OFFSET_SPACING + (BATCH_SIZE - 1) + priority_fee}
  /\ Len(sent) = 1
  /\ sent[1].worker = 1
  /\ result = Some(sent[1].outcome)
  /\ pc[0] = "done"
  /\ ret[0] = None

PairwiseDisjoint(q) ==
  \A i, j \in Workers : i # j => Range(q[i]) \cap Range(q[j]) = {}

\* C4 as stated: in every reachable state no fee value has been tested by
\* two different workers.
C4_Original == PairwiseDisjoint(tested)

\* Every worker's cursor is still inside its own range of the fee space.
CursorsInRange ==
  \A i \in Workers :
    base_fee[i] <= base_fee_start + (i + 1) * THREAD_OFFSET_SPACING

\* C4 amended: no fee value has been tested by two different workers as long
\* as no worker's cursor has advanced past the start of the next worker's
\* range, base_fee_start + (i + 1) * spacing.
C4_Amended == CursorsInRange => PairwiseDisjoint(tested)

\* Worker 0 has tested its whole range and worker 1 has tested candidates
\* too, with every cursor still in range.
C4_Witness ==
  /\ thread_count >= 2
  /\ CursorsInRange
  /\ Len(tested[0]) = THREAD_OFFSET_SPACING
  /\ tested[1] # <<>>

\* C5: worker i's cursor starts at base_fee_start + i * spacing, and while
\* every worker has generated at most `spacing` candidates the sets of base
\* fees generated by distinct workers are pairwise disjoint.
C5_StartAndDisjoint ==
  /\ \A i \in Workers :
       /\ (pc[i] = "loop" /\ generated[i] = <<>>) =>
            base_fee[i] = base_fee_start + i * THREAD_OFFSET_SPACING
       /\ generated[i] # <<>> =>
            generated[i][1] = base_fee_start + i * THREAD_OFFSET_SPACING
  /\ (\A i \in Workers : Len(generated[i]) <= THREAD_OFFSET_SPACING)
       => PairwiseDisjoint(generated)

\* Two workers have each generated exactly `spacing` candidates.
C5_Witness ==
  /\ thread_count >= 2
  /\ \A i \in Workers : Len(generated[i]) = THREAD_OFFSET_SPACING


\* C6: when every worker task has terminated and none of them published,
\* the orchestrator's recv() ends with None (the "not found" report): it
\* does not stay blocked.
C6_WaitEnds ==
  (opc = "recv" /\ AllTerminated /\ sent = <<>>) => ENABLED RecvNone

NoCandidateMatches == \A f \in Fees : ~IsMatch(f)

\* C7: the search never hangs: when no candidate matches the prefix, the
\* run is never stuck short of the "not found" report.
C7_NeverHangs == NoCandidateMatches => (opc = "notfound" \/ ENABLED Next)

\* C8: a claimed outcome is never lost: once a worker has claimed the win
\* and every worker task has finished, the claimer's outcome has been sent
\* to the orchestrator (which then receives it, once).
C8_ClaimDelivered ==
  (claimed # <<>> /\ AllTerminated) =>
    /\ Len(sent) = 1
    /\ sent[1].worker = claimed[1]
    /\ (opc = "matched" => result = Some(sent[1].outcome))

\* Worker i's first candidate: max fee of base fee base_fee_start + i*spacing.
FirstFee(i) == base_fee_start + i * THREAD_OFFSET_SPACING + priority_fee

\* C9 as stated: with the empty prefix no worker signs more than one
\* candidate and the published outcome is the claimer's first candidate.
C9_Original ==
  hash_prefix = <<>> =>
    /\ \A i \in Workers : Len(tested[i]) <= 1
    /\ \A k \in 1..Len(sent) :
         MaxFee(sent[k].outcome.signed_rlp[1]) = FirstFee(sent[k].worker)

\* C9 amended: with the empty prefix the first candidate whose signing
\* succeeds is accepted: a worker tests its candidates in order from its
\* first one, every candidate before its last tested one failed to sign, so
\* no worker signs more than one candidate successfully; the published
\* outcome is the claimer's first successfully signed candidate, which is
\* its very first candidate when that signing succeeds.
C9_Amended ==
  hash_prefix = <<>> =>
    /\ \A i \in Workers :
         /\ \A k \in 1..Len(tested[i]) : tested[i][k] = FirstFee(i) + (k - 1)
         /\ \A k \in 1..(Len(tested[i]) - 1) : ~signer[tested[i][k]].ok
         /\ (FirstFee(i) \in Fees /\ signer[FirstFee(i)].ok) =>
              Len(tested[i]) <= 1
    /\ \A k \in 1..Len(sent) :
         LET w == sent[k].worker
             f == MaxFee(sent[k].outcome.signed_rlp[1])
         IN /\ f = tested[w][Len(tested[w])]
            /\ signer[f].ok
            /\ signer[FirstFee(w)].ok => f = FirstFee(w)

\* Empty prefix: the claimer's first candidate failed to sign and its second
\* was published; the other worker signed one candidate and discarded it.
C9_Witness ==
  /\ hash_prefix = <<>>
  /\ thread_count = 2
  /\ Len(sent) = 1
  /\ Len(tested[sent[1].worker]) = 2
  /\ \E j \in Workers :
       /\ j # sent[1].worker
       /\ Len(tested[j]) = 1
       /\ signer[tested[j][1]].ok
       /\ pc[j] = "done"

\* C10: the flag is false at search start, changes only from false to true
\* and only in the step of a worker whose just-signed candidate's hash
\* matches the prefix, and once true stays true.
C10_FlagSetOnce ==
  /\ ~found
  /\ [][/\ found => found'
        /\ found' # found =>
             \E i \in Workers :
               /\ pc[i] = "sign"
               /\ Len(tested'[i]) = Len(tested[i]) + 1
               /\ IsMatch(tested'[i][Len(tested'[i])])
               /\ claimed' = Append(claimed, i)]_vars

\* A whole run with two workers and prefix "0xab": the flag is set and
\* every worker task has finished.
C10_Witness ==
  /\ found
  /\ thread_count = 2
  /\ hash_prefix = <<"0", "x", "a", "b">>
  /\ AllTerminated

\* C11: once the flag is set, every worker, winner or not, leaves its search
\* loop: under fair scheduling every task ends, and a worker that meets the
\* set flag at its while test returns instead of building another batch.
C11_AllExit ==
  /\ found ~> AllTerminated
  /\ [][\A i \in Workers :
          (found /\ pc[i] = "loop" /\ pc'[i] # "loop") => pc'[i] = "done"]_vars

\* The flag is set, the claimer and a worker that was in the middle of its
\* search have both returned.
C11_Witness ==
  /\ found
  /\ AllTerminated
  /\ \E w \in Workers, j \in Workers :
       /\ claimed = <<w>>
       /\ j # w
       /\ pc[w] = "done"
       /\ pc[j] = "done"
       /\ tested[j] # <<>>
       /\ overrun[j] = 1

\* C12: after the flag has become true, a worker signs at most one batch
\* (batch_size) of further candidates before it stops.
C12_BoundedOverrun == \A i \in Workers : overrun[i] <= BATCH_SIZE

\* A worker that lost the race signed one more candidate, a miss, with the
\* flag already set, and then returned.
C12_Witness ==
  \E j \in Workers :
    /\ overrun[j] = 1
    /\ pc[j] = "done"
    /\ j \notin Range(claimed)
    /\ Len(tested[j]) >= 2
    /\ ~IsMatch(tested[j][Len(tested[j])])

\* Every signing attempt fails, whatever the candidate.
AllSigningFails == \A f \in Fees : ~signer[f].ok

\* C13: a signer failure that hits every attempt of a worker is fatal to the
\* worker: the failure ends its search, so the worker is never one that
\* signed candidate after candidate until its cursor ran out of U256.
C13_SystemicFailureFatal ==
  AllSigningFails =>
    \A i \in Workers : ~(pc[i] = "panicked" /\ tested[i] # <<>>)

\* The fees of a sequence follow one another without a gap.
InOrder(q) == \A k \in 1..(Len(q) - 1) : q[k + 1] = q[k] + 1

\* The max fee of the candidate worker i is about to hand to the signer.
FeeAtHand(i) == MaxFee(batch[i][idx[i]])

\* The max fee of the candidate worker i turns to next: the next one of its
\* batch, or the one its cursor stands on once the batch is used up.
FeeComingUp(i) ==
  IF idx[i] >= 1 THEN MaxFee(batch[i][idx[i]]) ELSE base_fee[i] + priority_fee

\* C14: a signing failure on one candidate is recovered locally: the
\* candidate is never published, the failing step leaves the flag, the claim
\* and the channel alone and does not end the worker, and the worker turns to
\* the next fee of its sequence, so the fees it tests stay in order.
C14_FailureSkipped ==
  /\ [](\A k \in 1..Len(sent) :
          LET f == MaxFee(sent[k].outcome.signed_rlp[1]) IN
          f \in Fees /\ signer[f].ok)
  /\ [](\A i \in Workers : InOrder(tested[i]))
  /\ [][\A i \in Workers :
          (pc[i] = "sign" /\ tested'[i] # tested[i] /\ ~signer[FeeAtHand(i)].ok)
            => /\ found' = found
               /\ claimed' = claimed
               /\ sent' = sent
               /\ pc'[i] \in {"check", "loop"}
               /\ FeeComingUp(i)' = FeeAtHand(i) + 1]_vars

\* With the flag still false, a worker has had a signing failure and has gone
\* on to sign the next candidate with success.
C14_Witness ==
  /\ ~found
  /\ \E i \in Workers :
       \E k \in 1..(Len(tested[i]) - 1) :
         /\ ~signer[tested[i][k]].ok
         /\ signer[tested[i][k + 1]].ok
         /\ tested[i][k + 1] = tested[i][k] + 1
         /\ ~Terminated(i)

\* What a run shows of the search: the fees each worker tested, the flag, the
\* claim and what was published.
observed == <<tested, found, claimed, sent>>

\* The candidate with max fee f and the outcome it is published as.
CandidateOf(f) ==
  [Template(gas_limit) EXCEPT !.max_fee_per_gas = Some(f),
                              !.max_priority_fee_per_gas = Some(priority_fee)]

OutcomeOf(f) ==
  [signed_rlp |-> <<CandidateOf(f), signer[f].hash>>,
   tx_hash |-> signer[f].hash,
   total_fee_wei |-> gas_limit * f]

\* One test of the worker that looks at the flag before every single
\* candidate: it hands the next fee of its sequence to the signer, unless it
\* has claimed, has met a match, or has signed once with the flag set (its
\* next look at the flag ends it); a match sets the flag and, if the flag was
\* false, claims the win.
OneByOneTest(i) ==
  LET f == FirstFee(i) + Len(tested[i]) IN
  /\ f \in Fees
  /\ i \notin Range(claimed)
  /\ overrun[i] = 0
  /\ \A k \in 1..Len(tested[i]) : ~IsMatch(tested[i][k])
  /\ tested' = [tested EXCEPT ![i] = Append(@, f)]
  /\ IF IsMatch(f)
       THEN /\ found' = TRUE
            /\ claimed' = IF found THEN claimed ELSE Append(claimed, i)
       ELSE UNCHANGED <<found, claimed>>
  /\ UNCHANGED sent

\* The one-by-one worker that claimed publishes the candidate it tested last.
OneByOnePublish(i) ==
  /\ claimed = <<i>>
  /\ sent = <<>>
  /\ sent' = <<[worker |-> i, outcome |-> OutcomeOf(tested[i][Len(tested[i])])]>>
  /\ UNCHANGED <<tested, found, claimed>>

\* Step by step, what the run shows is a run of the one-by-one workers.
RunOfOneByOne ==
  /\ tested = [i \in Workers |-> <<>>] /\ ~found /\ claimed = <<>> /\ sent = <<>>
  /\ [][\E i \in Workers : OneByOneTest(i) \/ OneByOnePublish(i)]_observed

\* C15: batching does not change the search: whatever a run with batches
\* shows (fees tested, flag, claim, published outcome), step by step, is what
\* workers that look at the flag before every single candidate show, no fee
\* reordered or skipped; and a worker stops where the one-by-one worker
\* stops: one that no match and no flag stopped has tested every fee up to
\* the largest one.
C15_BatchingSameAsOneByOne ==
  /\ [](\A i \in Workers :
          (pc[i] = "panicked" /\ i \notin Range(claimed) /\ FirstFee(i) \in Fees)
            => /\ tested[i] # <<>>
               /\ tested[i][Len(tested[i])] = U256Max)
  /\ RunOfOneByOne

\* q is strictly increasing.
StrictlyIncreasing(q) == \A k \in 1..(Len(q) - 1) : q[k] < q[k + 1]

\* C16: each batch generation step (a step from the while test taken with the
\* flag false) produces exactly batch_size candidates with base fees cursor,
\* cursor + 1, ..., cursor + batch_size - 1 in that order, each with max fee
\* = base fee + priority fee and the fixed priority fee, and leaves the cursor
\* at cursor + batch_size; each worker's base fees are strictly increasing.
C16_BatchGeneration ==
  /\ [](\A i \in Workers : StrictlyIncreasing(generated[i]))
  /\ [][\A i \in Workers :
          (pc[i] = "loop" /\ ~found /\ pc'[i] # "loop")
            => /\ Len(batch'[i]) = BATCH_SIZE
               /\ \A k \in 1..BATCH_SIZE :
                    /\ batch'[i][k].max_fee_per_gas =
                         Some(base_fee[i] + (k - 1) + priority_fee)
                    /\ batch'[i][k].max_priority_fee_per_gas = Some(priority_fee)
               /\ generated'[i] =
                    generated[i] \o [k \in 1..BATCH_SIZE |-> base_fee[i] + (k - 1)]
               /\ base_fee'[i] = base_fee[i] + BATCH_SIZE]_vars

\* C17: no false negatives: a worker tests the fees of its sequence in order
\* from its first one and never goes past a candidate whose signed hash starts
\* with the prefix, and a tested match sets the flag; so a published
\* candidate is the first one, in the claimer's increasing fee order, whose
\* successfully signed hash starts with the prefix.
C17_NoFalseNegative ==
  /\ \A i \in Workers :
       /\ tested[i] # <<>> => tested[i][1] = FirstFee(i)
       /\ InOrder(tested[i])
       /\ \A k \in 1..Len(tested[i]) :
            IsMatch(tested[i][k]) => (found /\ k = Len(tested[i]))
  /\ \A k \in 1..Len(sent) :
       LET w == sent[k].worker
           f == MaxFee(sent[k].outcome.signed_rlp[1])
       IN /\ f \in Fees
          /\ IsMatch(f)
          /\ \A g \in FirstFee(w)..(f - 1) : ~IsMatch(g)

\* The claimer published the match that came after a candidate whose signing
\* failed and a candidate whose hash missed a non-empty prefix.
C17_Witness ==
  /\ Len(sent) = 1
  /\ hash_prefix = Prefix0x00
  /\ LET q == tested[sent[1].worker] IN
       /\ Len(q) > BATCH_SIZE
       /\ \E k \in 1..(Len(q) - 1) : ~signer[q[k]].ok
       /\ \E k \in 1..(Len(q) - 1) : signer[q[k]] = SignOk(MissHash)

\* C18: the shared template (no destination, the payload, the nonce, the gas
\* limit, the chain id, no fee set) is what it was built as in every state,
\* and no step changes it; the fee fields are set on the batch's own copies.
C18_TemplateUnchanged ==
  /\ [](tx_template =
          [to |-> "none", data |-> "calldata", nonce |-> 5, gas |-> gas_limit,
           chain_id |-> 1, max_fee_per_gas |-> <<>>,
           max_priority_fee_per_gas |-> <<>>])
  /\ [][tx_template' = tx_template]_vars

\* Both workers have built batches, whose copies carry fees, and an outcome
\* was published.
C18_Witness ==
  /\ thread_count = 2
  /\ Len(sent) = 1
  /\ \A i \in Workers :
       /\ Len(generated[i]) >= BATCH_SIZE
       /\ Len(batch[i]) = BATCH_SIZE
       /\ batch[i][1].max_fee_per_gas # <<>>
  /\ tx_template.max_fee_per_gas = <<>>

\* C19: a worker task finishes only when the flag is true: while the flag is
\* false no worker has terminated, and a worker that has finished is the
\* claimer or left after the flag was set.
C19_FinishOnlyWhenFlagSet ==
  \A i \in Workers : Terminated(i) => found

=============================================================================
